---- MODULE Spec2Model ----
(***************************************************************************)
(* Model of the four tool handlers of src/app/[transport]/route.ts        *)
(* (read_pdf_content, read_pdf_fields, fill_pdf, validate_pdf).           *)
(*                                                                         *)
(* One behaviour is one invocation: Init draws the request (operation,     *)
(* document bytes, field_data, flatten, required_fields) and the actions   *)
(* run the handler to its JSON response.                                   *)
(*                                                                         *)
(* JavaScript strings that the code inspects (toLowerCase, trim, ===,      *)
(* truthiness) are sequences of one-character strings; field names and     *)
(* error messages, which are only compared or tested for emptiness, are    *)
(* TLA+ strings.  JavaScript values are tagged records.                    *)
(***************************************************************************)
EXTENDS Integers, Sequences, FiniteSets, TLC

VARIABLES
  req,           \* the arguments of the invocation (execute's parameters)
  pc,            \* where the handler is: "start", "loop", "save", "done"
  form,          \* fill_pdf: the fields of the loaded document (pdfDoc.getForm())
  idx,           \* fill_pdf: the position of the loop in Object.entries(field_data)
  filledFields,  \* fill_pdf: names written so far
  errors,        \* fill_pdf: per-field errors so far
  flattened,     \* fill_pdf: whether form.flatten() has been called
  response       \* the JSON object the handler returned

vars == <<req, pc, form, idx, filledFields, errors, flattened, response>>

(* ------------------------------ bounds -------------------------------- *)

\* largest number of form fields of an input document
MaxFields == 2

(* ------------------------- JavaScript values -------------------------- *)

Undefined == [t |-> "undefined"]
Null == [t |-> "null"]
Str(s) == [t |-> "string", v |-> s]
Bool(b) == [t |-> "boolean", v |-> b]
Arr(a) == [t |-> "array", v |-> a]

\* JavaScript truthiness: undefined, null, "" and false are falsy; every
\* array (the empty one too) is truthy.
Truthy(x) ==
  CASE x.t = "undefined" -> FALSE
    [] x.t = "null" -> FALSE
    [] x.t = "string" -> x.v # <<>>
    [] x.t = "boolean" -> x.v
    [] x.t = "array" -> TRUE

\* a || b
JsOr(a, b) == IF Truthy(a) THEN a ELSE b

UpperCase == <<"A","B","C","D","E","F","G","H","I","J","K","L","M",
               "N","O","P","Q","R","S","T","U","V","W","X","Y","Z">>
LowerCase == <<"a","b","c","d","e","f","g","h","i","j","k","l","m",
               "n","o","p","q","r","s","t","u","v","w","x","y","z">>

toLowerCaseChar(c) ==
  IF \E k \in 1..26 : UpperCase[k] = c
  THEN LowerCase[CHOOSE k \in 1..26 : UpperCase[k] = c]
  ELSE c

\* String.prototype.toLowerCase
toLowerCase(s) == [k \in 1..Len(s) |-> toLowerCaseChar(s[k])]

WhiteSpace == {" ", "\t", "\n"}

RECURSIVE trimStart(_)
trimStart(s) ==
  IF s # <<>> /\ Head(s) \in WhiteSpace THEN trimStart(Tail(s)) ELSE s

RECURSIVE trimEnd(_)
trimEnd(s) ==
  IF s # <<>> /\ s[Len(s)] \in WhiteSpace
  THEN trimEnd(SubSeq(s, 1, Len(s) - 1))
  ELSE s

\* String.prototype.trim
trim(s) == trimEnd(trimStart(s))

\* Array.prototype.includes on an array of names
includes(arr, x) == \E k \in 1..Len(arr) : arr[k] = x

(* --------------------- documents and form fields ---------------------- *)

\* Strings that occur as field values, option names and fill values.
sEmpty == <<>>
sBlank == <<" ">>
sTrue == <<"T","r","u","e">>
sOne == <<"1">>
sYES == <<"Y","E","S">>
sPadYes == <<" ","y","e","s">>
sOpt == <<"o","1">>
sOther == <<"o","2">>

\* The export values of every radio group of the modelled documents.
RadioOptions == {sOpt, sOther}

\* A form field as pdf-lib presents it: its fully qualified name, the name
\* of its class (field.constructor.name), its stored value, the options a
\* radio group offers, and whether a text field is rich-formatted (getText
\* throws on a rich text field without a plain value).
\* PDFButton stands for the kinds the handlers have no branch for.
FieldVariants ==
  {[type |-> "PDFTextField", value |-> v, options |-> {}, rich |-> FALSE] :
     v \in {Undefined, Str(sBlank), Str(sOpt)}}
  \cup {[type |-> "PDFTextField", value |-> Undefined, options |-> {}, rich |-> TRUE]}
  \cup {[type |-> "PDFCheckBox", value |-> Bool(b), options |-> {}, rich |-> FALSE] :
     b \in BOOLEAN}
  \cup {[type |-> "PDFDropdown", value |-> Arr(a), options |-> {}, rich |-> FALSE] :
     a \in {<<>>, <<sOpt>>}}
  \cup {[type |-> "PDFRadioGroup", value |-> v, options |-> RadioOptions, rich |-> FALSE] :
     v \in {Undefined, Str(sOpt)}}
  \cup {[type |-> "PDFButton", value |-> Undefined, options |-> {}, rich |-> FALSE]}

FieldNames == <<"f1", "f2", "f3", "f4">>

MkField(n, fv) ==
  [name |-> n, type |-> fv.type, value |-> fv.value,
   options |-> fv.options, rich |-> fv.rich]

\* The forms of the input documents: up to MaxFields fields, names unique.
Forms ==
  UNION {{[k \in 1..n |-> MkField(FieldNames[k], vs[k])] : vs \in [1..n -> FieldVariants]} :
           n \in 0..MaxFields}

\* Decoded input bytes.  loads says what the parser does with them:
\* "ok", or throws an Error ("error"), or throws a value that is no
\* Error ("nonerror").  A wrong or missing password is one way not to load.
MkPdf(l, fs, txt) == [loads |-> l, fields |-> fs, numpages |-> Len(txt), text |-> txt]

FormPdfs ==
  {MkPdf("ok", fs, <<>>) : fs \in Forms}
  \cup {MkPdf(l, <<>>, <<>>) : l \in {"error", "nonerror"}}

ContentPdfs ==
  {MkPdf("ok", <<>>, txt) : txt \in {<<>>, <<"page one">>, <<"page one", "page two">>}}
  \cup {MkPdf(l, <<>>, <<>>) : l \in {"error", "nonerror"}}

\* The value a failed library call throws.
Thrown(pdf) ==
  IF pdf.loads = "error"
  THEN [isError |-> TRUE, message |-> "Failed to parse PDF document"]
  ELSE [isError |-> FALSE, message |-> ""]

(* ------------------- pdf-lib calls made by the handlers --------------- *)

Return(v) == [threw |-> FALSE, val |-> v]
Throw(m) == [threw |-> TRUE, val |-> m]

HasField(fm, n) == \E k \in 1..Len(fm) : fm[k].name = n
FieldIndex(fm, n) == CHOOSE k \in 1..Len(fm) : fm[k].name = n

\* form.getField(name): NoSuchFieldError when the form has no such field
getField(fm, n) ==
  IF HasField(fm, n) THEN Return(fm[FieldIndex(fm, n)])
  ELSE Throw("no form field with this name")

\* PDFTextField.getText(): the plain value, undefined when none
getText(field) ==
  IF field.rich /\ ~Truthy(field.value) THEN Throw("rich text field")
  ELSE Return(field.value)

\* PDFCheckBox.isChecked()
isChecked(field) == Return(field.value)

\* PDFDropdown.getSelected(): the array of selected options;
\* PDFRadioGroup.getSelected(): the selected option or undefined
getSelected(field) == Return(field.value)

\* PDFTextField.setText(text): an empty text removes the value
setText(field, text) ==
  Return([field EXCEPT !.value = IF text # <<>> THEN Str(text) ELSE Undefined,
                       !.rich = FALSE])

\* PDFCheckBox.check() and uncheck()
check(field) == Return([field EXCEPT !.value = Bool(TRUE)])
uncheck(field) == Return([field EXCEPT !.value = Bool(FALSE)])

\* PDFDropdown.select(option) accepts any option (an unknown one makes the
\* dropdown editable); PDFRadioGroup.select(option) throws unless the
\* option is one of the group's.
select(field, option) ==
  IF field.type = "PDFRadioGroup"
  THEN IF option \in field.options
       THEN Return([field EXCEPT !.value = Str(option)])
       ELSE Throw("option is not one of the radio group's")
  ELSE Return([field EXCEPT !.value = Arr(<<option>>)])

\* form.flatten(): every field is drawn onto its page and removed
flatten(fm) == <<>>

\* pdfDoc.save() followed by base64 encoding: the bytes of a document that
\* loads again and has the form as it now is
save(pdf, fm) == MkPdf("ok", fm, pdf.text)

(* ------------------------------ requests ------------------------------ *)

\* A name no modelled document has a field for.
AbsentName == "zz"

\* The strings a caller supplies for a field of field_data.  The value given
\* for a name the handler never writes with is immaterial, so one is drawn.
FillValues(n) ==
  IF n = "f1" THEN {sEmpty, sTrue, sOne, sYES, sPadYes, sOpt}
  ELSE IF n = "f2" THEN {sOpt, sYES}
  ELSE {sOpt}

EntryNames == {"f1", "f2", AbsentName}

\* All orderings of all subsets of a set of names.
RECURSIVE Orderings(_)
Orderings(S) ==
  {<<>>} \cup UNION {{<<n>> \o rest : rest \in Orderings(S \ {n})} : n \in S}

\* field_data: a record of string values, in insertion order (the order
\* Object.entries yields for names that are not array indices).
FieldData ==
  UNION {{[k \in 1..Len(ns) |-> [name |-> ns[k], value |-> vs[k]]] :
            vs \in {f \in [1..Len(ns) -> FillValues("f1")] :
                      \A k \in 1..Len(ns) : f[k] \in FillValues(ns[k])}} :
         ns \in Orderings(EntryNames)}

NotGiven == [given |-> FALSE, names |-> <<>>]
Given(ns) == [given |-> TRUE, names |-> ns]

RequiredFields == {NotGiven} \cup {Given(ns) : ns \in Orderings(EntryNames)}

MkRequest(o, p, fd, fl, rf) ==
  [op |-> o, pdf |-> p, field_data |-> fd, flatten |-> fl, required_fields |-> rf]

\* The requests of each operation; the parameters an operation does not
\* take are left at their defaults.
IsRequest(r) ==
  \/ \E p \in ContentPdfs : r = MkRequest("read_pdf_content", p, <<>>, FALSE, NotGiven)
  \/ \E p \in FormPdfs : r = MkRequest("read_pdf_fields", p, <<>>, FALSE, NotGiven)
  \/ \E p \in FormPdfs, fd \in FieldData, fl \in BOOLEAN :
       r = MkRequest("fill_pdf", p, fd, fl, NotGiven)
  \/ \E p \in FormPdfs, rf \in RequiredFields :
       r = MkRequest("validate_pdf", p, <<>>, FALSE, rf)

(* ------------------------------ responses ----------------------------- *)

Pending == [status |-> "pending"]

\* JSON.stringify of the object a handler returns
Success(body) == [status |-> "returned", success |-> TRUE, body |-> body]

\* Faulty variant of CatchMessage: error.message whatever was thrown.
CatchMessage_noFallback(error, fallback) == error.message

\* error instanceof Error ? error.message : <fallback>
CatchMessage(error, fallback) ==
  IF error.isError THEN error.message ELSE fallback

Failure(error, fallback) ==
  [status |-> "returned", success |-> FALSE, error |-> CatchMessage(error, fallback)]

(* --------------------------- read_pdf_content ------------------------- *)

\* pdfParse(pdfBuffer, {password})
pdfParse(pdf) ==
  IF pdf.loads = "ok"
  THEN Return([numpages |-> pdf.numpages, text |-> pdf.text])
  ELSE Throw(Thrown(pdf))

catch_read_pdf_content(error) == Failure(error, "Failed to read PDF")

read_pdf_content_execute(r) ==
  LET data == pdfParse(r.pdf) IN
  IF data.threw THEN catch_read_pdf_content(data.val)
  ELSE Success([pageCount |-> data.val.numpages, text |-> data.val.text])

(* ---------------------------- read_pdf_fields ------------------------- *)

\* PDFDocument.load(pdfBuffer, {password, ignoreEncryption: false}),
\* then pdfDoc.getForm()
load(pdf) ==
  IF pdf.loads = "ok" THEN Return(pdf.fields) ELSE Throw(Thrown(pdf))

\* Faulty variant of fieldValue: only text fields and checkboxes are read.
fieldValue_textAndCheckBoxOnly(field) ==
  LET type == field.type IN
  IF type = "PDFTextField" THEN
    LET r == getText(field) IN IF r.threw THEN Null ELSE JsOr(r.val, Null)
  ELSE IF type = "PDFCheckBox" THEN
    LET r == isChecked(field) IN IF r.threw THEN Null ELSE r.val
  ELSE Null

\* The value read_pdf_fields reports for one field: the try block with its
\* four branches, null when no branch applies or the accessor throws.
fieldValue(field) ==
  LET type == field.type IN
  IF type = "PDFTextField" THEN
    LET r == getText(field) IN IF r.threw THEN Null ELSE JsOr(r.val, Null)
  ELSE IF type = "PDFCheckBox" THEN
    LET r == isChecked(field) IN IF r.threw THEN Null ELSE r.val
  ELSE IF type = "PDFDropdown" THEN
    LET r == getSelected(field) IN IF r.threw THEN Null ELSE r.val
  ELSE IF type = "PDFRadioGroup" THEN
    LET r == getSelected(field) IN IF r.threw THEN Null ELSE JsOr(r.val, Null)
  ELSE Null

\* Faulty variant of fieldInfo: fields of an unhandled kind are left out.
fieldInfo_supportedOnly(fields) ==
  LET kept == SelectSeq(fields, LAMBDA f : f.type \in
                 {"PDFTextField", "PDFCheckBox", "PDFDropdown", "PDFRadioGroup"})
  IN [k \in 1..Len(kept) |->
        [name |-> kept[k].name, type |-> kept[k].type, value |-> fieldValue(kept[k])]]

\* fields.map((field) => ({name, type, value}))
fieldInfo(fields) ==
  [k \in 1..Len(fields) |->
     [name |-> fields[k].name, type |-> fields[k].type, value |-> fieldValue(fields[k])]]

catch_read_pdf_fields(error) == Failure(error, "Failed to read PDF fields")

read_pdf_fields_execute(r) ==
  LET doc == load(r.pdf) IN
  IF doc.threw THEN catch_read_pdf_fields(doc.val)
  ELSE Success([fieldCount |-> Len(doc.val), fields |-> fieldInfo(doc.val)])

(* ------------------------------ validate_pdf -------------------------- *)

\* Faulty variant of fieldsToCheck: required_fields is ignored.
fieldsToCheck_unfiltered(fields, required_fields) == fields

\* required_fields ? fields.filter(f => required_fields.includes(f.getName()))
\*                 : fields
\* (an array, even an empty one, is truthy)
fieldsToCheck(fields, required_fields) ==
  IF required_fields.given
  THEN SelectSeq(fields, LAMBDA f : includes(required_fields.names, f.name))
  ELSE fields

\* Faulty variant of textIsEmpty: the text is not trimmed.
textIsEmpty_untrimmed(text) == ~Truthy(text)

\* !text || text.trim() === ""
textIsEmpty(text) == ~Truthy(text) \/ trim(text.v) = <<>>

\* The emptiness of one checked field: isEmpty starts true, the try block
\* sets it by kind, and a throwing accessor leaves it true.
isEmpty(field) ==
  LET type == field.type IN
  IF type = "PDFTextField" THEN
    LET r == getText(field) IN IF r.threw THEN TRUE ELSE textIsEmpty(r.val)
  ELSE IF type = "PDFCheckBox" THEN
    LET r == isChecked(field) IN IF r.threw THEN TRUE ELSE ~Truthy(r.val)
  ELSE IF type = "PDFDropdown" THEN
    LET r == getSelected(field) IN
    IF r.threw THEN TRUE ELSE ~Truthy(r.val) \/ Len(r.val.v) = 0
  ELSE IF type = "PDFRadioGroup" THEN
    LET r == getSelected(field) IN IF r.threw THEN TRUE ELSE ~Truthy(r.val)
  ELSE TRUE

\* for (const field of fieldsToCheck): each name is pushed on emptyFields
\* or on filledFields, in order.
RECURSIVE classify(_, _, _, _)
classify(fields, k, empty, filled) ==
  IF k > Len(fields) THEN [emptyFields |-> empty, filledFields |-> filled]
  ELSE IF isEmpty(fields[k])
       THEN classify(fields, k + 1, Append(empty, fields[k].name), filled)
       ELSE classify(fields, k + 1, empty, Append(filled, fields[k].name))

catch_validate_pdf(error) == Failure(error, "Failed to validate PDF")

validate_pdf_execute(r) ==
  LET doc == load(r.pdf) IN
  IF doc.threw THEN catch_validate_pdf(doc.val)
  ELSE
    LET toCheck == fieldsToCheck(doc.val, r.required_fields)
        lists == classify(toCheck, 1, <<>>, <<>>)
    IN Success([isValid |-> Len(lists.emptyFields) = 0,
                totalChecked |-> Len(toCheck),
                filledCount |-> Len(lists.filledFields),
                emptyCount |-> Len(lists.emptyFields),
                emptyFields |-> lists.emptyFields,
                filledFields |-> lists.filledFields])

(* -------------------------------- fill_pdf ---------------------------- *)

\* Faulty variant of checkboxTruthy: the comparison is case-sensitive.
checkboxTruthy_caseSensitive(value) ==
  \/ value = <<"t","r","u","e">>
  \/ value = <<"1">>
  \/ value = <<"y","e","s">>

\* value.toLowerCase() === "true" || value === "1" ||
\* value.toLowerCase() === "yes"
checkboxTruthy(value) ==
  \/ toLowerCase(value) = <<"t","r","u","e">>
  \/ value = <<"1">>
  \/ toLowerCase(value) = <<"y","e","s">>

\* The setter the kind dispatch calls on a resolved field; "skipped" when
\* no branch matches the field's class.
writeField(field, value) ==
  LET fieldType == field.type IN
  IF fieldType = "PDFTextField" THEN setText(field, value)
  ELSE IF fieldType = "PDFCheckBox" THEN
    IF checkboxTruthy(value) THEN check(field) ELSE uncheck(field)
  ELSE IF fieldType = "PDFDropdown" THEN select(field, value)
  ELSE IF fieldType = "PDFRadioGroup" THEN select(field, value)
  ELSE [threw |-> FALSE, val |-> field, skipped |-> TRUE]

\* Faulty variant of fillEntry: the name is pushed on filledFields before
\* the field is resolved, so a failed entry is listed as filled.
fillEntry_listsFailedName(fm, fieldName, value) ==
  LET got == getField(fm, fieldName) IN
  IF got.threw
  THEN [form |-> fm, outcome |-> "filled", message |-> got.val]
  ELSE
    LET w == writeField(got.val, value) IN
    IF w.threw THEN [form |-> fm, outcome |-> "filled", message |-> w.val]
    ELSE IF "skipped" \in DOMAIN w THEN [form |-> fm, outcome |-> "none", message |-> ""]
    ELSE [form |-> [fm EXCEPT ![FieldIndex(fm, fieldName)] = w.val],
          outcome |-> "filled", message |-> ""]

\* One iteration of the loop over Object.entries(field_data): the try block
\* and its catch.  outcome says which list, if any, the name was pushed on.
fillEntry(fm, fieldName, value) ==
  LET got == getField(fm, fieldName) IN
  IF got.threw
  THEN [form |-> fm, outcome |-> "error", message |-> got.val]
  ELSE
    LET w == writeField(got.val, value) IN
    IF w.threw THEN [form |-> fm, outcome |-> "error", message |-> w.val]
    ELSE IF "skipped" \in DOMAIN w THEN [form |-> fm, outcome |-> "none", message |-> ""]
    ELSE [form |-> [fm EXCEPT ![FieldIndex(fm, fieldName)] = w.val],
          outcome |-> "filled", message |-> ""]

catch_fill_pdf(error) == Failure(error, "Failed to fill PDF")

\* errors.length > 0 ? errors : undefined  (JSON.stringify drops the key)
errorsOrUndefined(errs) == IF Len(errs) > 0 THEN Arr(errs) ELSE Undefined

(* ------------------------------- actions ------------------------------ *)

Init ==
  /\ IsRequest(req)
  /\ pc = "start"
  /\ form = <<>>
  /\ idx = 1
  /\ filledFields = <<>>
  /\ errors = <<>>
  /\ flattened = FALSE
  /\ response = Pending

read_pdf_content ==
  /\ pc = "start" /\ req.op = "read_pdf_content"
  /\ response' = read_pdf_content_execute(req)
  /\ pc' = "done"
  /\ UNCHANGED <<req, form, idx, filledFields, errors, flattened>>

read_pdf_fields ==
  /\ pc = "start" /\ req.op = "read_pdf_fields"
  /\ response' = read_pdf_fields_execute(req)
  /\ pc' = "done"
  /\ UNCHANGED <<req, form, idx, filledFields, errors, flattened>>

validate_pdf ==
  /\ pc = "start" /\ req.op = "validate_pdf"
  /\ response' = validate_pdf_execute(req)
  /\ pc' = "done"
  /\ UNCHANGED <<req, form, idx, filledFields, errors, flattened>>

\* fill_pdf up to the loop: decode, load, getForm, the two empty lists
fill_pdf_load ==
  /\ pc = "start" /\ req.op = "fill_pdf"
  /\ LET doc == load(req.pdf) IN
     IF doc.threw
     THEN /\ response' = catch_fill_pdf(doc.val)
          /\ pc' = "done"
          /\ UNCHANGED form
     ELSE /\ form' = doc.val
          /\ pc' = "loop"
          /\ UNCHANGED response
  /\ UNCHANGED <<req, idx, filledFields, errors, flattened>>

\* one iteration of the loop over the entries of field_data
fill_pdf_entry ==
  /\ pc = "loop" /\ idx <= Len(req.field_data)
  /\ LET e == req.field_data[idx]
         r == fillEntry(form, e.name, e.value)
     IN /\ form' = r.form
        /\ filledFields' =
             IF r.outcome = "filled" THEN Append(filledFields, e.name) ELSE filledFields
        /\ errors' =
             IF r.outcome = "error"
             THEN Append(errors, [name |-> e.name, message |-> r.message])
             ELSE errors
  /\ idx' = idx + 1
  /\ UNCHANGED <<req, pc, flattened, response>>

\* Faulty variant of fill_pdf_flatten: the form is flattened whether or not
\* flatten was asked for.
fill_pdf_flatten_unconditional ==
  /\ pc = "loop" /\ idx > Len(req.field_data)
  /\ form' = flatten(form) /\ flattened' = TRUE
  /\ pc' = "save"
  /\ UNCHANGED <<req, idx, filledFields, errors, response>>

\* the loop is over: if (flatten) form.flatten()
fill_pdf_flatten ==
  /\ pc = "loop" /\ idx > Len(req.field_data)
  /\ IF req.flatten
     THEN form' = flatten(form) /\ flattened' = TRUE
     ELSE UNCHANGED <<form, flattened>>
  /\ pc' = "save"
  /\ UNCHANGED <<req, idx, filledFields, errors, response>>

\* pdfDoc.save(), base64, and the response
fill_pdf_save ==
  /\ pc = "save"
  /\ response' = Success([filledFields |-> filledFields,
                          errors |-> errorsOrUndefined(errors),
                          filled_pdf_base64 |-> save(req.pdf, form)])
  /\ pc' = "done"
  /\ UNCHANGED <<req, form, idx, filledFields, errors, flattened>>

Next ==
  \/ read_pdf_content
  \/ read_pdf_fields
  \/ validate_pdf
  \/ fill_pdf_load
  \/ fill_pdf_entry
  \/ fill_pdf_flatten
  \/ fill_pdf_save

Spec == Init /\ [][Next]_vars

(* ------------------- vocabulary of the properties --------------------- *)

Range(q) == {q[k] : k \in DOMAIN q}
NamesOf(q) == {q[k].name : k \in DOMAIN q}

SupportedTypes == {"PDFTextField", "PDFCheckBox", "PDFDropdown", "PDFRadioGroup"}

Done(o) == pc = "done" /\ req.op = o
Loaded == req.pdf.loads = "ok"
Succeeded == response.status = "returned" /\ response.success

\* the field of the input document with a given name
InputHas(n) == n \in NamesOf(req.pdf.fields)
InputField(n) == CHOOSE f \in Range(req.pdf.fields) : f.name = n

\* the names in the errors list of a fill_pdf response
ErrorNames ==
  IF response.body.errors.t = "array" THEN NamesOf(response.body.errors.v) ELSE {}
FilledNames == Range(response.body.filledFields)

\* the value a field accepts: a radio group only one of its options
Accepts(f, v) == f.type = "PDFRadioGroup" => v \in f.options

\* the document read back from the bytes a fill_pdf response carries
Reread == read_pdf_fields_execute(
            MkRequest("read_pdf_fields", response.body.filled_pdf_base64,
                      <<>>, FALSE, NotGiven))
RereadValue(n) == (CHOOSE e \in Range(Reread.body.fields) : e.name = n).value

\* the field with a given name in the document a fill_pdf response carries
OutputField(n) ==
  CHOOSE f \in Range(response.body.filled_pdf_base64.fields) : f.name = n

\* the entry's field holds what its setter stores (checked on the output
\* document, which keeps its fields unless the form was flattened)
Written(e) ==
  req.flatten \/ OutputField(e.name) = writeField(InputField(e.name), e.value).val

HasAbsentEntry == \E e \in Range(req.field_data) : ~InputHas(e.name)

(* ------------------------------- C1 ----------------------------------- *)

\* C1 as stated: when fill_pdf is given a document that loads and a mapping
\* with an entry naming no field of it, the response has success true, the
\* absent name is in errors and not in filledFields, and every entry naming
\* an existing field of a supported kind is written and in filledFields.
C1_Original ==
  (Done("fill_pdf") /\ Loaded /\ HasAbsentEntry) =>
    /\ Succeeded
    /\ \A e \in Range(req.field_data) :
         IF ~InputHas(e.name)
         THEN e.name \in ErrorNames /\ e.name \notin FilledNames
         ELSE InputField(e.name).type \in SupportedTypes =>
                (e.name \in FilledNames /\ Written(e))

\* C1 amended: as C1_Original, but an entry naming an existing field of a
\* supported kind is written and listed in filledFields only if the field
\* accepts the value (a radio group accepts only its own options); an entry
\* whose value is rejected is reported in errors, like the absent name, and
\* the response still has success true.
C1_AbsentNameNeverAborts ==
  (Done("fill_pdf") /\ Loaded /\ HasAbsentEntry) =>
    /\ Succeeded
    /\ \A e \in Range(req.field_data) :
         IF ~InputHas(e.name)
         THEN e.name \in ErrorNames /\ e.name \notin FilledNames
         ELSE InputField(e.name).type \in SupportedTypes =>
                IF Accepts(InputField(e.name), e.value)
                THEN e.name \in FilledNames /\ e.name \notin ErrorNames /\ Written(e)
                ELSE e.name \in ErrorNames /\ e.name \notin FilledNames

\* An absent name comes first, and a later entry is filled all the same.
C1_Witness ==
  /\ Done("fill_pdf") /\ Loaded /\ Succeeded
  /\ Len(req.field_data) = 3
  /\ ~InputHas(req.field_data[1].name)
  /\ req.field_data[2].name \in FilledNames
  /\ req.field_data[3].name \in FilledNames
  /\ ~req.flatten

(* ------------------------------- C2 ----------------------------------- *)

\* C2 as stated: every entry of field_data ends in exactly one of the two
\* lists of the fill_pdf response: in errors if its field is absent or of an
\* unsupported kind, in filledFields otherwise.
C2_EveryEntryReported ==
  (Done("fill_pdf") /\ Loaded /\ Succeeded) =>
    \A e \in Range(req.field_data) :
      /\ (e.name \in ErrorNames) # (e.name \in FilledNames)
      /\ (~InputHas(e.name) \/ InputField(e.name).type \notin SupportedTypes)
           => e.name \in ErrorNames

(* ------------------------------- C3 ----------------------------------- *)

\* the fields validate_pdf is asked to check: those of the document, and
\* when required_fields is given only those it names
CheckedNames ==
  {n \in NamesOf(req.pdf.fields) :
     req.required_fields.given => n \in Range(req.required_fields.names)}

\* C3: in every successful validate_pdf response emptyCount + filledCount
\* equals totalChecked, emptyFields and filledFields are disjoint and
\* together hold exactly the checked fields, and when required_fields is
\* given every reported name is one of its names.
C3_CountsAndPartition ==
  (Done("validate_pdf") /\ Succeeded) =>
    LET b == response.body
        empty == Range(b.emptyFields)
        filled == Range(b.filledFields)
    IN /\ b.emptyCount + b.filledCount = b.totalChecked
       /\ b.emptyCount = Len(b.emptyFields) /\ b.emptyCount = Cardinality(empty)
       /\ b.filledCount = Len(b.filledFields) /\ b.filledCount = Cardinality(filled)
       /\ empty \cap filled = {}
       /\ empty \cup filled = CheckedNames
       /\ req.required_fields.given =>
            (empty \cup filled) \subseteq Range(req.required_fields.names)

\* A subset is given that names a field of the document, which is reported
\* filled, and a name that is no field; the document has an empty field
\* outside the subset.
C3_Witness ==
  /\ Done("validate_pdf") /\ Succeeded
  /\ req.required_fields = Given(<<AbsentName, "f2">>)
  /\ Len(req.pdf.fields) = 2
  /\ req.pdf.fields[1].value = Bool(FALSE)
  /\ response.body.filledFields = <<"f2">>
  /\ response.body.totalChecked = 1

(* ------------------------------- C4 ----------------------------------- *)

\* C4 as stated: when required_fields is given, validate_pdf returns isValid
\* true only if every name it lists is a field of the document and that
\* field is not empty.
C4_RequiredNamesMustExist ==
  (Done("validate_pdf") /\ Succeeded /\ req.required_fields.given
     /\ response.body.isValid) =>
    \A n \in Range(req.required_fields.names) :
      InputHas(n) /\ n \in Range(response.body.filledFields)

(* ------------------------------- C7 ----------------------------------- *)

\* The emptiness rule of the specification, stated on the stored value.
Blank(str) == \A k \in 1..Len(str) : str[k] \in WhiteSpace

RuleEmpty(f) ==
  CASE f.type = "PDFTextField" ->
         f.rich \/ f.value.t = "undefined" \/ Blank(f.value.v)
    [] f.type = "PDFCheckBox" -> f.value = Bool(FALSE)
    [] f.type = "PDFDropdown" -> f.value.v = <<>>
    [] f.type = "PDFRadioGroup" -> f.value.t = "undefined"
    [] OTHER -> TRUE

\* C7: validate_pdf lists a checked field in emptyFields iff the rule of its
\* kind calls it empty (text absent or blank after trimming, checkbox
\* unchecked, dropdown or radio group with nothing selected, any other kind,
\* an accessor that throws), and in filledFields otherwise.
C7_EmptinessPerKind ==
  (Done("validate_pdf") /\ Succeeded) =>
    \A n \in CheckedNames :
      /\ n \in Range(response.body.emptyFields) <=> RuleEmpty(InputField(n))
      /\ n \in Range(response.body.filledFields) <=> ~RuleEmpty(InputField(n))

\* A blank text field is listed empty and a dropdown with a selection filled.
C7_Witness ==
  /\ Done("validate_pdf") /\ Succeeded
  /\ \E f \in Range(req.pdf.fields) :
       /\ f.type = "PDFTextField" /\ f.value = Str(sBlank)
       /\ f.name \in Range(response.body.emptyFields)
  /\ \E f \in Range(req.pdf.fields) :
       /\ f.type = "PDFDropdown" /\ f.value.v # <<>>
       /\ f.name \in Range(response.body.filledFields)

(* ------------------------------- C10 ---------------------------------- *)

\* the fields whose value read_pdf_fields cannot read
Unreadable(f) == f.type \notin SupportedTypes \/ (f.type = "PDFTextField" /\ f.rich)

\* C10: for a document that loads, read_pdf_fields succeeds and returns one
\* (name, type, value) entry per field, in document order, with fieldCount
\* the number of fields; a field of an unsupported kind or whose accessor
\* throws is listed with value null.
C10_OneEntryPerField ==
  (Done("read_pdf_fields") /\ Loaded) =>
    /\ Succeeded
    /\ response.body.fieldCount = Len(req.pdf.fields)
    /\ Len(response.body.fields) = Len(req.pdf.fields)
    /\ \A k \in 1..Len(req.pdf.fields) :
         /\ response.body.fields[k].name = req.pdf.fields[k].name
         /\ response.body.fields[k].type = req.pdf.fields[k].type
         /\ Unreadable(req.pdf.fields[k]) => response.body.fields[k].value = Null

\* A field of an unhandled kind precedes a readable one.
C10_Witness ==
  /\ Done("read_pdf_fields") /\ Loaded /\ Succeeded
  /\ Len(req.pdf.fields) = 2
  /\ req.pdf.fields[1].type = "PDFButton"
  /\ req.pdf.fields[2].type = "PDFCheckBox"
  /\ response.body.fields[2].value = Bool(TRUE)

(* ------------------------------- C5 ----------------------------------- *)

\* C5: every invocation ends in a returned response, never in a fault; when
\* the input bytes do not load the response has success false; and a
\* response with success false always carries a non-empty error string.
C5_FailuresAreReported ==
  /\ pc = "done" => response.status = "returned"
  /\ (pc = "done" /\ ~Loaded) => ~response.success
  /\ (response.status = "returned" /\ ~response.success) =>
       ("error" \in DOMAIN response /\ response.error # "")

\* The parser threw a value that is no Error and fill_pdf answered with its
\* own message.
C5_Witness ==
  /\ Done("fill_pdf")
  /\ req.pdf.loads = "nonerror"
  /\ response.status = "returned" /\ ~response.success
  /\ response.error = "Failed to fill PDF"

(* ------------------------------- C6 ----------------------------------- *)

\* The strings of the model that a checkbox takes as checked: "true", "1"
\* and "yes" in any case.  sEmpty, sPadYes and sOpt are not among them.
TruthyStrings == {sTrue, sOne, sYES}

\* the entries C6 is about: an existing field of a supported kind and a
\* value the field accepts
RoundTrips(e) ==
  /\ InputHas(e.name)
  /\ InputField(e.name).type \in SupportedTypes
  /\ Accepts(InputField(e.name), e.value)

\* C6 as stated: after fill_pdf without flatten, read_pdf_fields on the
\* output returns for a text field exactly the string written (the empty
\* string too), for a checkbox the coerced boolean, and for a dropdown or a
\* radio group the option string written.
C6_Original ==
  (Done("fill_pdf") /\ Loaded /\ Succeeded /\ ~req.flatten) =>
    /\ Reread.success
    /\ \A e \in Range(req.field_data) :
         RoundTrips(e) =>
           LET type == InputField(e.name).type
               r == RereadValue(e.name)
           IN CASE type = "PDFTextField" -> r = Str(e.value)
                [] type = "PDFCheckBox" -> r = Bool(e.value \in TruthyStrings)
                [] type = "PDFDropdown" -> r = Str(e.value)
                [] type = "PDFRadioGroup" -> r = Str(e.value)

\* C6 amended: as C6_Original, but a text field written with the empty
\* string reads back as null (every other string exactly), and a dropdown
\* reads back as the one-element list holding the option written.
C6_WriteThenRead ==
  (Done("fill_pdf") /\ Loaded /\ Succeeded /\ ~req.flatten) =>
    /\ Reread.success
    /\ \A e \in Range(req.field_data) :
         RoundTrips(e) =>
           LET type == InputField(e.name).type
               r == RereadValue(e.name)
           IN CASE type = "PDFTextField" ->
                     r = IF e.value = sEmpty THEN Null ELSE Str(e.value)
                [] type = "PDFCheckBox" -> r = Bool(e.value \in TruthyStrings)
                [] type = "PDFDropdown" -> r = Arr(<<e.value>>)
                [] type = "PDFRadioGroup" -> r = Str(e.value)

\* A text field is written with a padded string and a radio group with one
\* of its options, and both read back.
C6_Witness ==
  /\ Done("fill_pdf") /\ Loaded /\ Succeeded /\ ~req.flatten
  /\ Len(req.pdf.fields) = 2
  /\ req.pdf.fields[1].type = "PDFTextField"
  /\ req.pdf.fields[2].type = "PDFRadioGroup"
  /\ req.pdf.fields[2].value = Undefined
  /\ req.field_data = <<[name |-> "f2", value |-> sOpt], [name |-> "f1", value |-> sPadYes]>>
  /\ RereadValue("f1") = Str(sPadYes)
  /\ RereadValue("f2") = Str(sOpt)

(* ------------------------------- C8 ----------------------------------- *)

IsCheckBox(n) == InputHas(n) /\ InputField(n).type = "PDFCheckBox"

\* C8: fill_pdf sets a checkbox checked iff the string given is "true", "1"
\* or "yes" in any case, and unchecked for every other string; either way
\* the name is listed in filledFields.  Stated on the form during the loop
\* and on the response.
C8_CheckboxCoercion ==
  /\ (req.op = "fill_pdf" /\ pc = "loop") =>
       \A k \in 1..(idx - 1) :
         LET e == req.field_data[k] IN
         IsCheckBox(e.name) =>
           /\ form[FieldIndex(form, e.name)].value = Bool(e.value \in TruthyStrings)
           /\ e.name \in Range(filledFields)
  /\ (Done("fill_pdf") /\ Loaded /\ Succeeded) =>
       \A e \in Range(req.field_data) :
         IsCheckBox(e.name) =>
           /\ e.name \in FilledNames
           /\ ~req.flatten => OutputField(e.name).value = Bool(e.value \in TruthyStrings)

\* A checked box is given " yes" and ends unchecked; an unchecked one is
\* given "YES" and ends checked.
C8_Witness ==
  /\ Done("fill_pdf") /\ Loaded /\ Succeeded /\ ~req.flatten
  /\ Len(req.pdf.fields) = 2
  /\ req.pdf.fields[1] = MkField("f1", [type |-> "PDFCheckBox", value |-> Bool(TRUE),
                                        options |-> {}, rich |-> FALSE])
  /\ req.pdf.fields[2] = MkField("f2", [type |-> "PDFCheckBox", value |-> Bool(FALSE),
                                        options |-> {}, rich |-> FALSE])
  /\ req.field_data = <<[name |-> "f1", value |-> sPadYes], [name |-> "f2", value |-> sYES]>>
  /\ OutputField("f1").value = Bool(FALSE)
  /\ OutputField("f2").value = Bool(TRUE)
  /\ response.body.filledFields = <<"f1", "f2">>

(* ------------------------------- C9 ----------------------------------- *)

\* the form of the document reloaded from the bytes of a fill_pdf response
Reloaded == load(response.body.filled_pdf_base64)

\* C9: the form is flattened only when flatten is true and only after every
\* entry of the mapping has been processed; the output of a flattening
\* fill_pdf reloads with no fields, so that a lookup of or a write to any
\* former field name fails and read_pdf_fields reports none; without
\* flatten the output keeps every field.
C9_FlattenLastAndFinal ==
  /\ flattened => (req.flatten /\ idx > Len(req.field_data) /\ pc \in {"save", "done"})
  /\ (req.op = "fill_pdf" /\ pc \in {"save", "done"} /\ Loaded) => flattened = req.flatten
  /\ (Done("fill_pdf") /\ Loaded /\ Succeeded) =>
       /\ ~Reloaded.threw
       /\ IF req.flatten
          THEN /\ Reloaded.val = <<>>
               /\ Reread.success /\ Reread.body.fieldCount = 0 /\ Reread.body.fields = <<>>
               /\ \A n \in NamesOf(req.pdf.fields) :
                    /\ getField(Reloaded.val, n).threw
                    /\ \A v \in FillValues("f1") :
                         fillEntry(Reloaded.val, n, v).outcome = "error"
          ELSE /\ NamesOf(Reloaded.val) = NamesOf(req.pdf.fields)
               /\ Reread.body.fieldCount = Len(req.pdf.fields)

\* A document with two fields is filled and flattened.
C9_Witness ==
  /\ Done("fill_pdf") /\ Loaded /\ Succeeded
  /\ req.flatten /\ flattened
  /\ Len(req.pdf.fields) = 2
  /\ response.body.filledFields = <<"f2", "f1">>
  /\ Reread.body.fieldCount = 0

====
